---- MODULE Spec2Model ----
(***************************************************************************)
(* A model of pyznap's ZFS bindings (src/pyznap/pyzfs.py): the dataset     *)
(* handles, the stream-size estimator with its per-instance cache, and the *)
(* pipelines that send() and receive() build.                              *)
(*                                                                         *)
(* A Python string is modelled as a sequence of atoms (short TLA+ strings).*)
(* Every character the code splits or joins on ('@', ' ', ':', '|') is an  *)
(* atom of its own, and so is every character of a text the code parses as *)
(* a number.  An argv list is a sequence of such strings.                  *)
(***************************************************************************)
EXTENDS Integers, Sequences, FiniteSets, TLC

VARIABLES
    self,          \* the dataset handle the operations are called on
    has_cache,     \* hasattr(self, 'stream_cache')
    stream_cache,  \* self.stream_cache: str(base) -> size
    returned,      \* per str(base): the value the latest stream_size call returned
    calls,         \* number of operations called so far
    issued,        \* the external commands the latest operation issued
    result,        \* what the latest operation did
    origin_prop,   \* the raw value of the ZFS property 'origin' of self.name
    ssh_dest,      \* the destination endpoint of the transfer
    MBUFFER,       \* pyzfs.MBUFFER is not None (mbuffer found at import)
    PV,            \* pyzfs.PV is not None (pv found at import)
    isatty,        \* sys.stdout.isatty()
    snd,           \* the pipeline the latest send() built
    rcv            \* the pipeline the latest receive() built

vars == <<self, has_cache, stream_cache, returned, calls, issued, result,
          origin_prop, ssh_dest, MBUFFER, PV, isatty, snd, rcv>>

----------------------------------------------------------------------------
(* Bounds of the model *)

\* longest text of the last field of the dry run's output that is enumerated
MaxLen == 2
\* most lines of dry-run output
MaxLines == 2
\* most tab-separated fields of an output line
MaxFields == 2
\* most operations called on one handle
MaxCalls == 3

----------------------------------------------------------------------------
(* Strings *)

Min(a, b) == IF a < b THEN a ELSE b
Max(a, b) == IF a > b THEN a ELSE b

\* a one-atom string
S(a) == <<a>>

RECURSIVE Concat(_)
\* ''.join(parts)
Concat(parts) ==
    IF parts = <<>> THEN <<>> ELSE Head(parts) \o Concat(Tail(parts))

RECURSIVE Join(_, _)
\* sep.join(parts)
Join(parts, sep) ==
    IF parts = <<>> THEN <<>>
    ELSE IF Len(parts) = 1 THEN parts[1]
    ELSE parts[1] \o S(sep) \o Join(Tail(parts), sep)

RECURSIVE SplitFrom(_, _, _, _)
\* the parts of s from atom `start` on, the atoms before i holding no sep
SplitFrom(s, sep, start, i) ==
    IF i > Len(s) THEN <<SubSeq(s, start, Len(s))>>
    ELSE IF s[i] = sep
    THEN <<SubSeq(s, start, i - 1)>> \o SplitFrom(s, sep, i + 1, i + 1)
    ELSE SplitFrom(s, sep, start, i + 1)

\* s.split(sep): always at least one part, empty parts kept
Split(s, sep) == SplitFrom(s, sep, 1, 1)

\* seq[-1]
Last(seq) == seq[Len(seq)]

DigitAtoms == <<"0", "1", "2", "3", "4", "5", "6", "7", "8", "9">>

DigitValue(a) == (CHOOSE i \in 1..10 : DigitAtoms[i] = a) - 1

IsDigit(a) == \E i \in 1..10 : DigitAtoms[i] = a

RECURSIVE Digits(_)
\* str(n) for n >= 0
Digits(n) ==
    IF n < 10 THEN S(DigitAtoms[n + 1])
    ELSE Digits(n \div 10) \o S(DigitAtoms[(n % 10) + 1])

RECURSIVE Decimal(_)
\* the value of a non-empty run of digits
Decimal(ds) ==
    IF Len(ds) = 1 THEN DigitValue(ds[1])
    ELSE 10 * Decimal(SubSeq(ds, 1, Len(ds) - 1)) + DigitValue(Last(ds))

\* int(w) succeeds: an optional sign and then digits only
IntOk(w) ==
    LET ds == IF w # <<>> /\ Head(w) \in {"-", "+"} THEN Tail(w) ELSE w
    IN  ds # <<>> /\ \A i \in 1..Len(ds) : IsDigit(ds[i])

\* int(w), when it succeeds
IntOf(w) ==
    IF Head(w) = "-" THEN 0 - Decimal(Tail(w))
    ELSE IF Head(w) = "+" THEN Decimal(Tail(w))
    ELSE Decimal(w)

----------------------------------------------------------------------------
(* Endpoints and dataset handles *)

\* ssh=None: the local endpoint.  Its other fields are never read.
NoSsh ==
    [remote |-> FALSE, user |-> "", host |-> "", cmd |-> <<>>,
     compress |-> <<>>, decompress |-> <<>>, mbuffer |-> FALSE, pv |-> FALSE]

\* An SSH endpoint: its shell prefix, its compression and decompression
\* command vectors (None and the empty vector are both falsy, and the code
\* only tests them for truth and for equality: both are <<>> here) and
\* whether it offers mbuffer and pv.
Endpoint(compress, decompress, mbuffer, pv) ==
    [remote |-> TRUE, user |-> "u", host |-> "h",
     cmd |-> <<S("ssh"), <<"u", "@", "h">> >>,
     compress |-> compress, decompress |-> decompress,
     mbuffer |-> mbuffer, pv |-> pv]

\* ZFSDataset.__init__
Handle(type, name, ssh) == [type |-> type, name |-> name, ssh |-> ssh]

\* ZFSDataset.__str__
Str(d) ==
    IF d.ssh.remote
    THEN S(d.ssh.user) \o S("@") \o S(d.ssh.host) \o S(":") \o d.name
    ELSE d.name

\* An optional argument: <<>> is None, <<x>> is x.
None == <<>>
Some(x) == <<x>>

\* str(base) of an optional handle
StrOpt(base) == IF base = None THEN S("None") ELSE Str(base[1])

----------------------------------------------------------------------------
(* check_output: what the invoked tool did *)

Failed(kind) == [kind |-> kind, out |-> <<>>]
Output(lines) == [kind |-> "ok", out |-> lines]

\* the exceptions check_output raises on a non-zero exit
ProcessErrors == {"DatasetNotFoundError", "DatasetBusyError", "CalledProcessError"}

----------------------------------------------------------------------------
(* ZFSSnapshot.stream_size *)

\* the try block, were DatasetBusyError left out of its except clause
CaughtErrorsNoBusy == {"DatasetNotFoundError", "CalledProcessError"}

\* the exceptions the dry run's try block catches
CaughtErrors == {"DatasetNotFoundError", "DatasetBusyError", "CalledProcessError"}

\* the dry-run command
SizeCmd(me, base) ==
    <<S("zfs"), S("send"), S("-nvP")>>
        \o (IF base # None THEN <<S("-I"), base[1].name>> ELSE <<>>)
        \o <<me.name>>

\* out[-1][-1] raises IndexError
LastFieldMissing(out) == out = <<>> \/ Last(out) = <<>>

\* out[-1][-1].split(' ')[-1]
SizeWord(out) == Last(Split(Last(Last(out)), " "))

\* the cached value is used: the attribute exists and holds str(base)
CacheHit(hc, cache, base) == hc /\ StrOpt(base) \in DOMAIN cache

\* d[key] = value
Put(d, key, value) ==
    [k \in DOMAIN d \cup {key} |-> IF k = key THEN value ELSE d[k]]

\* the cache when the command is about to run: created empty by the first
\* call on the instance, preset to 0 for str(base) by a later one
CacheBeforeRun(hc, cache, base) ==
    IF ~hc THEN <<>> ELSE Put(cache, StrOpt(base), 0)

\* One call of stream_size(base) with the tool doing `outcome`:
\* the value returned, the exception raised ("" for none), the commands
\* issued and the cache afterwards.
StreamSize(me, hc, cache, base, outcome) ==
    IF CacheHit(hc, cache, base)
    THEN [value |-> cache[StrOpt(base)], raised |-> "", cmds |-> <<>>,
          cache |-> cache]
    ELSE LET c0 == CacheBeforeRun(hc, cache, base)
             cmds == <<SizeCmd(me, base)>>
         IN  IF outcome.kind # "ok"
             THEN IF outcome.kind \in CaughtErrors
                  THEN [value |-> 0, raised |-> "", cmds |-> cmds, cache |-> c0]
                  ELSE [value |-> 0, raised |-> outcome.kind, cmds |-> cmds,
                        cache |-> c0]
             ELSE IF LastFieldMissing(outcome.out)
                  THEN [value |-> 0, raised |-> "", cmds |-> cmds, cache |-> c0]
             ELSE IF ~IntOk(SizeWord(outcome.out))
                  THEN [value |-> 0, raised |-> "", cmds |-> cmds, cache |-> c0]
             ELSE LET size == IntOf(SizeWord(outcome.out))
                  IN  [value |-> size, raised |-> "", cmds |-> cmds,
                       cache |-> Put(c0, StrOpt(base), size)]

----------------------------------------------------------------------------
(* The optional tools and the shell *)

\* SHELL
SHELL == <<S("sh"), S("-c")>>

\* 1024**2
MiB == 1048576

\* the largest mbuffer memory, in MiB, of a transfer over ssh
CapSsh == 256

\* the largest mbuffer memory, in MiB, of a local transfer
CapLocal == 512

\* MBUFFER(mem), and an endpoint's ssh.mbuffer(mem)
MbufferCmd(mem) ==
    <<S("mbuffer"), S("-q"), S("-s"), S("128K"), S("-m"), Digits(mem) \o S("M")>>

\* PV(size), and an endpoint's ssh.pv(size)
PvCmd(size) ==
    <<S("pv"), S("-f"), S("-w"), S("100"), S("-s"), Digits(size)>>

\* the atoms shlex.quote leaves alone are those of plain names
UnsafeAtoms == {" ", "|", "'", "$", ";", "&"}

\* shlex.quote(name), for names that hold no single quote
Quote(name) ==
    IF name = <<>> THEN S("''")
    ELSE IF \A i \in 1..Len(name) : name[i] \notin UnsafeAtoms THEN name
    ELSE S("'") \o name \o S("'")

\* the buffer memory, were the local cap used for every transfer
MbuffSizeOneCap(stream_size, ssh_a, ssh_b) ==
    Min(Max(stream_size \div MiB, 1), CapLocal)

\* min(max(stream_size // 1024**2, 1), 256 if (ssh_a or ssh_b) else 512)
MbuffSize(stream_size, ssh_a, ssh_b) ==
    Min(Max(stream_size \div MiB, 1),
        IF ssh_a.remote \/ ssh_b.remote THEN CapSsh ELSE CapLocal)

----------------------------------------------------------------------------
(* ZFSSnapshot.send *)

\* the compression command, were it chosen only between two remote endpoints
SendCompressBothRemote(ssh_self, dest) ==
    IF ssh_self.remote /\ dest.remote /\ ssh_self.compress = dest.compress
    THEN ssh_self.compress ELSE <<>>

\* the compression command send() settles on (<<>>: none)
SendCompress(ssh_self, dest) ==
    IF ssh_self.remote /\ dest.remote
    THEN IF ssh_self.compress = dest.compress THEN ssh_self.compress ELSE <<>>
    ELSE IF ssh_self.remote \/ dest.remote
    THEN IF ssh_self.remote THEN ssh_self.compress ELSE dest.compress
    ELSE <<>>

\* the zfs send command itself
SendGeneration(me, base, intermediates, flags, raw) ==
    <<S("zfs"), S("send")>>
        \o (IF flags.replicate THEN <<S("-R")>> ELSE <<>>)
        \o (IF flags.properties THEN <<S("-p")>> ELSE <<>>)
        \o (IF flags.deduplicate THEN <<S("-D")>> ELSE <<>>)
        \o (IF raw THEN <<S("-w")>> ELSE <<>>)
        \o (IF base # None
            THEN <<IF intermediates THEN S("-I") ELSE S("-i"), Quote(base[1].name)>>
            ELSE <<>>)
        \o <<Quote(me.name)>>

\* the mbuffer stage of send(), were it added whatever the stream size
SendMbufferUngated(has_mbuffer, stream_size, mbuff_size) ==
    IF has_mbuffer THEN <<S("|")>> \o MbufferCmd(mbuff_size) ELSE <<>>

\* the mbuffer stage of send(), with its pipe sign, or nothing
SendMbuffer(has_mbuffer, stream_size, mbuff_size) ==
    IF has_mbuffer /\ stream_size >= MiB
    THEN <<S("|")>> \o MbufferCmd(mbuff_size) ELSE <<>>

\* the pv stage of send(), with its pipe sign, or nothing
SendPv(has_pv, stream_size, tty) ==
    IF has_pv /\ stream_size >= MiB
    THEN <<S("|")>> \o PvCmd(stream_size)
            \o (IF ~tty THEN <<S("-D"), S("60"), S("-i"), S("60")>> ELSE <<>>)
    ELSE <<>>

\* the compression stage of send(), with its pipe sign, or nothing
SendCompressStage(compress, raw) ==
    IF compress # <<>> /\ ~raw THEN <<S("|")>> \o compress ELSE <<>>

\* the stages after the zfs send command, were pv appended before mbuffer
SendTailPvFirst(mbuffer_stage, pv_stage, compress_stage) ==
    pv_stage \o mbuffer_stage \o compress_stage

\* the stages after the zfs send command, in the order send() appends them
SendTail(mbuffer_stage, pv_stage, compress_stage) ==
    mbuffer_stage \o pv_stage \o compress_stage

\* The argv send() hands to Popen, given the estimated stream size.
SendCmd(me, dest, local_mbuffer, local_pv, tty, base, intermediates, flags, raw, stream_size) ==
    LET mbuff_size == MbuffSize(stream_size, me.ssh, dest)
        shell == IF me.ssh.remote THEN me.ssh.cmd ELSE SHELL
        mbuffer == IF me.ssh.remote THEN me.ssh.mbuffer ELSE local_mbuffer
        pv == IF me.ssh.remote THEN me.ssh.pv ELSE local_pv
        compress == SendCompress(me.ssh, dest)
        cmd == SendGeneration(me, base, intermediates, flags, raw)
                 \o SendTail(SendMbuffer(mbuffer, stream_size, mbuff_size),
                             SendPv(pv, stream_size, tty),
                             SendCompressStage(compress, raw))
    IN  shell \o <<Join(cmd, " ")>>

----------------------------------------------------------------------------
(* receive *)

\* the decompression command receive() settles on (<<>>: none)
ReceiveDecompress(ssh, ssh_source) ==
    IF ssh_source.remote /\ ssh.remote
    THEN IF ssh_source.decompress = ssh.decompress
         THEN ssh_source.decompress ELSE <<>>
    ELSE IF ssh_source.remote \/ ssh.remote
    THEN IF ssh_source.remote THEN ssh_source.decompress ELSE ssh.decompress
    ELSE <<>>

\* the zfs receive command itself
ReceiveCore(name, flags) ==
    <<S("zfs"), S("receive")>>
        \o (IF flags.append_name THEN <<S("-e")>>
            ELSE IF flags.append_path THEN <<S("-d")>> ELSE <<>>)
        \o (IF flags.force THEN <<S("-F")>> ELSE <<>>)
        \o (IF flags.nomount THEN <<S("-u")>> ELSE <<>>)
        \o <<Quote(name)>>

\* the mbuffer stage of receive(), with its pipe sign, or nothing
ReceiveMbuffer(ssh, ssh_source, has_mbuffer, stream_size, mbuff_size) ==
    IF (ssh_source.remote \/ ssh.remote) /\ has_mbuffer /\ stream_size >= MiB
    THEN MbufferCmd(mbuff_size) \o <<S("|")>> ELSE <<>>

\* the decompression stage of receive(), with its pipe sign, or nothing
ReceiveDecompressStage(decompress, raw) ==
    IF decompress # <<>> /\ ~raw THEN decompress \o <<S("|")>> ELSE <<>>

\* The argv receive() hands to Popen.
ReceiveCmd(name, ssh, ssh_source, local_mbuffer, flags, stream_size, raw) ==
    LET mbuff_size == MbuffSize(stream_size, ssh_source, ssh)
        shell == IF ssh.remote THEN ssh.cmd ELSE SHELL
        mbuffer == IF ssh.remote THEN ssh.mbuffer ELSE local_mbuffer
        decompress == ReceiveDecompress(ssh, ssh_source)
        cmd == ReceiveMbuffer(ssh, ssh_source, mbuffer, stream_size, mbuff_size)
                 \o ReceiveDecompressStage(decompress, raw)
                 \o ReceiveCore(name, flags)
    IN  shell \o <<Join(cmd, " ")>>

----------------------------------------------------------------------------
(* find, findprops and open *)

\* the -r / -d <max_depth> part of a zfs list or zfs get command;
\* max_depth is None or Some(n) with n >= 0
DepthArgs(max_depth) ==
    IF max_depth = None THEN <<S("-r")>> ELSE <<S("-d"), Digits(max_depth[1])>>

\* the command of find(path, ssh, max_depth, types)
FindCmd(path, max_depth, types) ==
    <<S("zfs"), S("list"), S("-H")>> \o DepthArgs(max_depth)
        \o (IF types # <<>> THEN <<S("-t"), Join(types, ",")>> ELSE <<>>)
        \o <<S("-o"), <<"name", ",", "type">> >>
        \o (IF path # <<>> THEN <<path>> ELSE <<>>)

\* the command of findprops(path, ssh, max_depth, props), no sources or types
FindpropsCmd(path, max_depth, props) ==
    <<S("zfs"), S("get"), S("-H"), S("-p")>> \o DepthArgs(max_depth)
        \o <<Join(props, ",")>>
        \o (IF path # <<>> THEN <<path>> ELSE <<>>)

\* the command of self.getprop(prop), which getpropval(prop) runs
GetpropCmd(me, prop) == FindpropsCmd(me.name, Some(0), <<S(prop)>>)

\* getpropval(prop, default=None) of a raw value: None for the sentinel '-'
Getpropval(raw) == IF raw = S("-") THEN None ELSE Some(raw)

\* the handles find() makes of the records [name, type] the tool printed
Opened(records, ssh) ==
    [i \in 1..Len(records) |-> Handle(records[i].type, records[i].name, ssh)]

----------------------------------------------------------------------------
(* The kind-restricted operations of the three classes *)

Types == {"filesystem", "volume", "snapshot"}

ListOps == {"filesystems", "volumes", "snapshots", "children"}

\* the methods ZFSDataset defines that the claims are about
DatasetMethods == ListOps \cup {"clones", "snapshot", "rollback", "promote"}

\* the methods ZFSSnapshot adds
SnapshotMethods == {"clone", "clones", "send", "stream_size", "hold", "holds", "release"}

\* the methods a class overrides with `raise OperationNotAllowedError()`
Refused(type) ==
    IF type = "volume" THEN {"filesystems", "volumes"}
    ELSE IF type = "snapshot" THEN {"snapshots", "snapshot"}
    ELSE {}

\* the methods a handle of the type has at all
Methods(type) ==
    IF type = "snapshot" THEN DatasetMethods \cup SnapshotMethods
    ELSE DatasetMethods

\* what a call did: the exception raised ("" for none), the commands issued
\* and the value returned
Did(raised, cmds, value) == [raised |-> raised, cmds |-> cmds, value |-> value]

\* the call of a method the class refuses, or of one it does not have
\* (op is not one that runs)
Rejected(type, op) ==
    IF op \in Refused(type) THEN Did("OperationNotAllowedError", <<>>, None)
    ELSE Did("AttributeError", <<>>, None)

\* a method runs its body on a handle of the type
Runs(type, op) == op \in Methods(type) /\ op \notin Refused(type)

\* the -t types a listing method asks find() for
ListTypes(op) ==
    IF op = "filesystems" THEN <<S("filesystem")>>
    ELSE IF op = "volumes" THEN <<S("volume")>>
    ELSE IF op = "snapshots" THEN <<S("snapshot")>>
    ELSE <<S("all")>>

\* ZFSDataset.filesystems / volumes / snapshots / children (max_depth=1):
\* filesystems and children drop the first record
ListBody(me, op, outcome) ==
    LET cmds == <<FindCmd(me.name, Some(1), ListTypes(op))>>
        found == Opened(outcome.out, me.ssh)
    IN  IF outcome.kind # "ok" THEN Did(outcome.kind, cmds, None)
        ELSE IF op \in {"filesystems", "children"}
        THEN Did("", cmds, Some(SubSeq(found, 2, Len(found))))
        ELSE Did("", cmds, Some(found))

\* -o prop=value for each of props
PropArgs(props) ==
    Concat([i \in 1..Len(props) |->
               <<S("-o"), props[i].prop \o S("=") \o props[i].value>>])

\* ZFSDataset.snapshot(snapname, recursive, props)
SnapshotBody(me, snapname, recursive, props, outcome) ==
    LET name == me.name \o S("@") \o snapname
        cmds == << <<S("zfs"), S("snapshot")>>
                     \o (IF recursive THEN <<S("-r")>> ELSE <<>>)
                     \o PropArgs(props) \o <<name>> >>
    IN  IF outcome.kind # "ok" THEN Did(outcome.kind, cmds, None)
        ELSE Did("", cmds, Some(Handle("snapshot", name, me.ssh)))

\* ZFSSnapshot.clone(name, props, force_parent)
CloneBody(me, name, props, force_parent, outcome) ==
    LET cmds == << <<S("zfs"), S("clone")>>
                     \o (IF force_parent THEN <<S("-p")>> ELSE <<>>)
                     \o PropArgs(props) \o <<me.name, name>> >>
    IN  Did(IF outcome.kind # "ok" THEN outcome.kind ELSE "", cmds, None)

\* ZFSSnapshot.hold(tag, recursive) and release(tag, recursive)
HoldBody(me, op, tag, recursive, outcome) ==
    LET cmds == << <<S("zfs"), S(op)>>
                     \o (IF recursive THEN <<S("-r")>> ELSE <<>>)
                     \o <<tag, me.name>> >>
    IN  Did(IF outcome.kind # "ok" THEN outcome.kind ELSE "", cmds, None)

\* ZFSSnapshot.holds(): the second field of every line
HoldsBody(me, outcome) ==
    LET cmds == << <<S("zfs"), S("holds"), S("-H"), me.name>> >>
    IN  IF outcome.kind # "ok" THEN Did(outcome.kind, cmds, None)
        ELSE Did("", cmds, Some([i \in 1..Len(outcome.out) |-> outcome.out[i][2]]))

\* ZFSSnapshot.clones(): getpropval('clones').split(','), which has no
\* split when the property is unset, and one open() per name, each asking
\* for the type
SnapshotClonesBody(me, raw, outcome) ==
    LET get == GetpropCmd(me, "clones")
        names == Split(raw, ",")
    IN  IF outcome.kind # "ok" THEN Did(outcome.kind, <<get>>, None)
        ELSE IF Getpropval(raw) = None THEN Did("AttributeError", <<get>>, None)
        ELSE Did("", <<get>> \o [i \in 1..Len(names) |->
                                   FindpropsCmd(names[i], Some(0), <<S("type")>>)],
                 Some([i \in 1..Len(names) |-> Handle("filesystem", names[i], me.ssh)]))

\* ZFSDataset.clones(max_depth=1): the clones property of everything down
\* to max_depth, here of one dataset with the raw value `raw`
DatasetClonesBody(me, raw, outcome) ==
    LET get == FindpropsCmd(me.name, Some(1), <<S("clones")>>)
        names == IF raw = <<>> \/ raw = S("-") THEN <<>> ELSE Split(raw, ",")
    IN  IF outcome.kind # "ok" THEN Did(outcome.kind, <<get>>, None)
        ELSE Did("", <<get>> \o [i \in 1..Len(names) |->
                                   FindpropsCmd(names[i], Some(0), <<S("type")>>)],
                 Some([i \in 1..Len(names) |-> Handle("filesystem", names[i], me.ssh)]))

----------------------------------------------------------------------------
(* origin, __eq__ and promote *)

\* ZFSDataset.origin(): the raw property read with one command; None when it
\* is the sentinel or empty, or else the handle open(origin) makes, which
\* asks for the type with a second command
Origin(me, raw) ==
    LET get == GetpropCmd(me, "origin")
    IN  IF Getpropval(raw) = None \/ raw = <<>> THEN Did("", <<get>>, None)
        ELSE Did("", <<get, FindpropsCmd(raw, Some(0), <<S("type")>>)>>,
                 Some(Handle("snapshot", raw, me.ssh)))

\* ZFSDataset.__eq__(d, value) with value None: d.guid() is read with one
\* command, then value.guid() raises, None having no guid
EqNone(d) == Did("AttributeError", <<GetpropCmd(d, "guid")>>, None)

\* self.origin() == None: None == None is true and runs nothing; a handle
\* on the left runs its __eq__
OriginIsNone(origin) ==
    IF origin = None THEN Did("", <<>>, Some(TRUE)) ELSE EqNone(origin[1])

\* ZFSDataset.promote()
PromoteBody(me, raw, outcome) ==
    LET o == Origin(me, raw)
        eq == OriginIsNone(o.value)
        cmd == <<S("zfs"), S("promote"), me.name>>
    IN  IF eq.raised # "" THEN Did(eq.raised, o.cmds \o eq.cmds, None)
        ELSE IF eq.value[1] THEN Did("", o.cmds \o eq.cmds, None)
        ELSE Did(IF outcome.kind # "ok" THEN outcome.kind ELSE "",
                 o.cmds \o eq.cmds \o <<cmd>>, None)

----------------------------------------------------------------------------
(* rollback *)

\* str(snapname): of a text the text, of a handle its __str__
StrArg(arg) == IF arg.is_handle THEN Str(arg.handle) ELSE arg.text

\* the snapshot rollback() names: str(snapname) split at '@', the handle's
\* own name put in front of a single part, joined with '@' again
RollbackTarget(me, snapname) ==
    LET snap == Split(StrArg(snapname), "@")
    IN  Join(IF Len(snap) = 1 THEN <<me.name>> \o snap ELSE snap, "@")

\* ZFSDataset.rollback(snapname, destroy_newer, destroy_clones, force_unmount)
RollbackBody(me, snapname, flags, outcome) ==
    LET cmds == << <<S("zfs"), S("rollback")>>
                     \o (IF flags.destroy_newer THEN <<S("-r")>> ELSE <<>>)
                     \o (IF flags.destroy_clones THEN <<S("-R")>> ELSE <<>>)
                     \o (IF flags.force_unmount THEN <<S("-f")>> ELSE <<>>)
                     \o <<RollbackTarget(me, snapname)>> >>
    IN  Did(IF outcome.kind # "ok" THEN outcome.kind ELSE "", cmds, None)

----------------------------------------------------------------------------
(* The inputs of the size estimator *)

SnapName == <<"pool/fs", "@", "s2">>
BaseName == <<"pool/fs", "@", "s1">>

\* a remote endpoint with every optional tool
FullEndpoint == Endpoint(<<S("lzop")>>, <<S("lzop"), S("-dfc")>>, TRUE, TRUE)

Alphabet == {"7", " ", "x"}

\* every text of at most n atoms
Texts(n) == UNION {[1..k -> Alphabet] : k \in 0..n}

\* Dry-run output: nothing at all, or up to MaxLines lines of up to MaxFields
\* fields; the last field of the last line is any text, the fields and lines
\* before it are numbers of their own.
DryRunOutputs ==
    {<<>>} \cup
    {[i \in 1..nl |-> <<S("8")>>] \o <<[i \in 1..nf |-> S("9")] \o <<t>> >> :
        nl \in 0..(MaxLines - 1), nf \in 0..(MaxFields - 1), t \in Texts(MaxLen)}

SizeOutcomes ==
    {Failed(k) : k \in ProcessErrors} \cup {Output(o) : o \in DryRunOutputs}

\* what the earlier calls on an instance meet: a failure, and two sizes
CommonOutcomes ==
    {Failed("CalledProcessError"),
     Output(<< <<S("size"), S("7")>> >>),
     Output(<< <<S("size"), <<"7", "7">> >> >>)}

\* The call that uses up the instance's calls meets every outcome; the ones
\* before it, which only decide what the cache holds, meet the common ones.
OutcomesAt(n) == IF n + 1 < MaxCalls THEN CommonOutcomes ELSE SizeOutcomes

SizeBases == {None, Some(Handle("snapshot", BaseName, FullEndpoint))}

NotRun == [op |-> "none"]
NoOutcome == [kind |-> "none", out |-> <<>>]

\* the variables of a transfer, where no transfer is modelled
NoTransfer ==
    /\ ssh_dest = NoSsh
    /\ MBUFFER = FALSE
    /\ PV = FALSE
    /\ isatty = FALSE
    /\ snd = NotRun
    /\ rcv = NotRun

InitSize ==
    /\ self = Handle("snapshot", SnapName, NoSsh)
    /\ has_cache = FALSE
    /\ stream_cache = <<>>
    /\ returned = <<>>
    /\ calls = 0
    /\ issued = <<>>
    /\ result = NotRun
    /\ origin_prop = S("-")
    /\ NoTransfer

\* self.stream_size(base=base), the tool doing `outcome` if it is run
CallStreamSize(base, outcome) ==
    LET r == StreamSize(self, has_cache, stream_cache, base, outcome)
        key == StrOpt(base)
    IN  /\ calls < MaxCalls
        /\ r.cmds = <<>> => outcome = Failed("CalledProcessError")
        /\ calls' = calls + 1
        /\ has_cache' = TRUE
        /\ stream_cache' = r.cache
        /\ issued' = r.cmds
        /\ result' = [op |-> "stream_size", base |-> base,
                      outcome |-> IF r.cmds = <<>> THEN NoOutcome ELSE outcome,
                      value |-> r.value, raised |-> r.raised,
                      earlier |-> IF key \in DOMAIN returned
                                  THEN Some(returned[key]) ELSE None]
        /\ returned' = IF r.raised = "" THEN Put(returned, key, r.value)
                       ELSE returned
        /\ UNCHANGED <<self, origin_prop, ssh_dest, MBUFFER, PV, isatty, snd, rcv>>

NextSize == \E base \in SizeBases, outcome \in OutcomesAt(calls) :
                CallStreamSize(base, outcome)

SpecSize == InitSize /\ [][NextSize]_vars

----------------------------------------------------------------------------
(* Reading a pipeline back from the argv handed to Popen *)

\* the words of a text: its parts between spaces, empty ones dropped
Words(text) == SelectSeq(Split(text, " "), LAMBDA w : w # <<>>)

\* the stages of the shell command that ends argv, left to right, each the
\* sequence of its words
Stages(argv) ==
    LET parts == Split(Last(argv), "|")
    IN  [i \in 1..Len(parts) |-> Words(parts[i])]

\* what a stage is, by the program it runs
StageKind(stage) ==
    IF stage[1] = S("zfs") THEN "zfs"
    ELSE IF stage[1] = S("pv") THEN "pv"
    ELSE IF stage[1] = S("mbuffer") THEN "mbuffer"
    ELSE "compression"

\* the kinds of the stages of a pipeline, left to right
StageKinds(stages) == [i \in 1..Len(stages) |-> StageKind(stages[i])]

HasStage(stages, kind) ==
    \E i \in 1..Len(stages) : StageKind(stages[i]) = kind

\* the memory, in MiB, of a pipeline's mbuffer stage: the word after -m
\* without its M
MbufferMem(stages) ==
    LET i == CHOOSE k \in 1..Len(stages) : StageKind(stages[k]) = "mbuffer"
        j == CHOOSE k \in 1..Len(stages[i]) : stages[i][k] = S("-m")
        w == stages[i][j + 1]
    IN  Decimal(SubSeq(w, 1, Len(w) - 1))

----------------------------------------------------------------------------
(* The inputs of a transfer *)

DestName == S("backup/fs")

CompressVecs == {<<>>, <<S("lzop")>>, <<S("gzip"), S("-3")>>}
DecompressVecs == {<<>>, <<S("lzop"), S("-dfc")>>, <<S("gzip"), S("-dc")>>}

\* the decompression command that undoes a compression command
Mirror(c) ==
    IF c = <<>> THEN <<>>
    ELSE IF c[1] = S("lzop") THEN <<S("lzop"), S("-dfc")>>
    ELSE <<S("gzip"), S("-dc")>>

\* The remote endpoints: every pair of a compression and a decompression
\* vector on an endpoint that has both tools, and every combination of tools
\* on an endpoint that compresses with lzop.
Endpoints ==
    {Endpoint(c, d, TRUE, TRUE) : c \in CompressVecs, d \in DecompressVecs}
    \cup {Endpoint(<<S("lzop")>>, Mirror(<<S("lzop")>>), m, p) :
            m \in BOOLEAN, p \in BOOLEAN}

Hosts == {NoSsh} \cup Endpoints

TransferSizes == {MiB - 1, MiB, 10 * MiB, 300 * MiB, 600 * MiB}

\* the dry run fails, or reports one of the sizes
TransferOutcomes ==
    {Failed("CalledProcessError")} \cup
    {Output(<< <<S("full"), SnapName, Digits(n)>>, <<S("size"), Digits(n)>> >>) :
        n \in TransferSizes}

\* base and intermediates of send()
TransferBases ==
    {<<None, FALSE>>} \cup
    {<<Some(Handle("snapshot", BaseName, NoSsh)), i>> : i \in BOOLEAN}

SendFlagSets ==
    {[replicate |-> b, properties |-> b, deduplicate |-> b] : b \in BOOLEAN}

ReceiveFlagSets ==
    {[append_name |-> FALSE, append_path |-> FALSE, force |-> FALSE, nomount |-> FALSE],
     [append_name |-> TRUE, append_path |-> TRUE, force |-> TRUE, nomount |-> TRUE],
     [append_name |-> FALSE, append_path |-> TRUE, force |-> FALSE, nomount |-> TRUE]}

\* A fresh snapshot handle on any endpoint, to be sent to any endpoint.  The
\* local tools are read only when an end of the transfer is local.
InitTransfer ==
    /\ self \in {Handle("snapshot", SnapName, ssh) : ssh \in Hosts}
    /\ ssh_dest \in Hosts
    /\ MBUFFER \in BOOLEAN
    /\ PV \in BOOLEAN
    /\ (self.ssh.remote /\ ssh_dest.remote) => (MBUFFER /\ PV)
    /\ isatty \in BOOLEAN
    /\ has_cache = FALSE
    /\ stream_cache = <<>>
    /\ returned = <<>>
    /\ calls = 0
    /\ issued = <<>>
    /\ result = NotRun
    /\ origin_prop = S("-")
    /\ snd = NotRun
    /\ rcv = NotRun

\* self.send(ssh_dest, base, intermediates, replicate, properties,
\* deduplicate, raw), the dry run doing `outcome`
Send(base, intermediates, flags, raw, outcome) ==
    LET r == StreamSize(self, has_cache, stream_cache, base, outcome)
        cmd == SendCmd(self, ssh_dest, MBUFFER, PV, isatty, base, intermediates,
                       flags, raw, r.value)
    IN  /\ snd = NotRun
        /\ r.raised = ""
        /\ calls' = calls + 1
        /\ has_cache' = TRUE
        /\ stream_cache' = r.cache
        /\ returned' = Put(returned, StrOpt(base), r.value)
        /\ issued' = r.cmds
        /\ snd' = [op |-> "send", base |-> base, intermediates |-> intermediates,
                   raw |-> raw, stream_size |-> r.value,
                   cmd |-> cmd, stages |-> Stages(cmd)]
        /\ UNCHANGED <<self, result, origin_prop, ssh_dest, MBUFFER, PV, isatty, rcv>>

\* receive(name, stdin, ssh=ssh_dest, ssh_source=self.ssh, ...) for the
\* transfer that send() started: the same estimate and the same raw
Receive(flags) ==
    LET cmd == ReceiveCmd(DestName, ssh_dest, self.ssh, MBUFFER, flags,
                          snd.stream_size, snd.raw)
    IN
    /\ snd # NotRun
    /\ rcv = NotRun
    /\ calls' = calls + 1
    /\ rcv' = [op |-> "receive", cmd |-> cmd, stages |-> Stages(cmd)]
    /\ UNCHANGED <<self, has_cache, stream_cache, returned, issued, result,
                   origin_prop, ssh_dest, MBUFFER, PV, isatty, snd>>

SendAny ==
    \E b \in TransferBases, flags \in SendFlagSets, raw \in BOOLEAN,
       outcome \in TransferOutcomes :
        Send(b[1], b[2], flags, raw, outcome)

ReceiveAny == \E flags \in ReceiveFlagSets : Receive(flags)

NextTransfer == SendAny \/ ReceiveAny

SpecTransfer == InitTransfer /\ [][NextTransfer]_vars

Remote == self.ssh.remote \/ ssh_dest.remote

----------------------------------------------------------------------------
(* Operations on a dataset handle *)

AllOps == DatasetMethods \cup SnapshotMethods

\* the name of a dataset of each type
NameOf(type) ==
    IF type = "filesystem" THEN S("pool/fs")
    ELSE IF type = "volume" THEN S("pool/vol")
    ELSE SnapName

\* the snapshot a clone was made of
OriginName == <<"pool/base", "@", "s0">>

ToolFailures == {Failed(k) : k \in ProcessErrors}

\* what zfs list prints for a dataset: nothing, itself, itself and a child
ListOutputs(me) ==
    LET own == [name |-> me.name, type |-> me.type]
        child == [name |-> me.name \o <<"/", "c">>, type |-> "filesystem"]
    IN  {<<>>, <<own>>, <<own, child>>}

HoldsOutputs(me) == {<<>>, << <<me.name, S("keep"), S("Nov 5")>> >>}

ClonesValues == {S("-"), <<>>, S("pool/c1"), <<"pool/c1", ",", "pool/c2">>}

PropSets == {<<>>, <<[prop |-> S("compression"), value |-> S("lz4")]>>}

NoHandle == Handle("", <<>>, NoSsh)

\* what rollback() is given for the snapshot s1 of a dataset: the label, the
\* full name, or a handle of the snapshot on the local or a remote endpoint
RollbackArgs(me) ==
    LET full == me.name \o <<"@", "s1">>
    IN  {[is_handle |-> FALSE, text |-> S("s1"), handle |-> NoHandle],
         [is_handle |-> FALSE, text |-> full, handle |-> NoHandle],
         [is_handle |-> TRUE, text |-> <<>>, handle |-> Handle("snapshot", full, NoSsh)],
         [is_handle |-> TRUE, text |-> <<>>,
          handle |-> Handle("snapshot", full, FullEndpoint)]}

RollbackFlagSets ==
    [destroy_newer : BOOLEAN, destroy_clones : BOOLEAN, force_unmount : BOOLEAN]

\* a handle of any type on the local or a remote endpoint; a filesystem or
\* a volume may be a clone
InitDataset ==
    /\ self \in {Handle(type, NameOf(type), ssh) :
                    type \in Types, ssh \in {NoSsh, FullEndpoint}}
    /\ origin_prop \in {S("-"), OriginName}
    /\ self.type = "snapshot" => origin_prop = S("-")
    /\ has_cache = FALSE
    /\ stream_cache = <<>>
    /\ returned = <<>>
    /\ calls = 0
    /\ issued = <<>>
    /\ result = NotRun
    /\ NoTransfer

\* the call of `op` with `args` did `d`
Called(op, args, d) ==
    /\ calls < MaxCalls
    /\ calls' = calls + 1
    /\ issued' = d.cmds
    /\ result' = [op |-> op, args |-> args, raised |-> d.raised, value |-> d.value]
    /\ UNCHANGED <<self, has_cache, stream_cache, returned, origin_prop,
                   ssh_dest, MBUFFER, PV, isatty, snd, rcv>>

\* a method the class refuses or lacks
CallRejected(op) ==
    /\ ~Runs(self.type, op)
    /\ Called(op, <<>>, Rejected(self.type, op))

CallList(op, outcome) ==
    /\ Runs(self.type, op)
    /\ Called(op, <<>>, ListBody(self, op, outcome))

CallClones(raw, outcome) ==
    /\ Runs(self.type, "clones")
    /\ Called("clones", <<>>,
              IF self.type = "snapshot" THEN SnapshotClonesBody(self, raw, outcome)
              ELSE DatasetClonesBody(self, raw, outcome))

CallSnapshot(snapname, recursive, props, outcome) ==
    /\ Runs(self.type, "snapshot")
    /\ Called("snapshot", <<snapname>>,
              SnapshotBody(self, snapname, recursive, props, outcome))

CallClone(name, props, force_parent, outcome) ==
    /\ Runs(self.type, "clone")
    /\ Called("clone", <<name>>, CloneBody(self, name, props, force_parent, outcome))

CallHold(op, tag, recursive, outcome) ==
    /\ Runs(self.type, op)
    /\ Called(op, <<tag>>, HoldBody(self, op, tag, recursive, outcome))

CallHolds(outcome) ==
    /\ Runs(self.type, "holds")
    /\ Called("holds", <<>>, HoldsBody(self, outcome))

CallPromote(outcome) ==
    /\ Runs(self.type, "promote")
    /\ Called("promote", <<>>, PromoteBody(self, origin_prop, outcome))

\* rollback is called on the filesystem or volume that is rolled back
CallRollback(snapname, flags, outcome) ==
    /\ self.type # "snapshot"
    /\ Called("rollback", snapname, RollbackBody(self, snapname, flags, outcome))

NextDataset ==
    \/ \E op \in AllOps : CallRejected(op)
    \/ \E op \in ListOps, o \in ToolFailures \cup {Output(l) : l \in ListOutputs(self)} :
          CallList(op, o)
    \/ \E raw \in ClonesValues, o \in ToolFailures \cup {Output(<<>>)} :
          CallClones(raw, o)
    \/ \E recursive \in BOOLEAN, props \in PropSets,
          o \in ToolFailures \cup {Output(<<>>)} :
          CallSnapshot(S("s3"), recursive, props, o)
    \/ \E force_parent \in BOOLEAN, props \in PropSets,
          o \in ToolFailures \cup {Output(<<>>)} :
          CallClone(S("pool/c1"), props, force_parent, o)
    \/ \E op \in {"hold", "release"}, recursive \in BOOLEAN,
          o \in ToolFailures \cup {Output(<<>>)} :
          CallHold(op, S("keep"), recursive, o)
    \/ \E o \in ToolFailures \cup {Output(l) : l \in HoldsOutputs(self)} :
          CallHolds(o)
    \/ \E o \in ToolFailures \cup {Output(<<>>)} : CallPromote(o)
    \/ \E a \in RollbackArgs(self), flags \in RollbackFlagSets,
          o \in ToolFailures \cup {Output(<<>>)} :
          CallRollback(a, flags, o)

SpecDataset == InitDataset /\ [][NextDataset]_vars

----------------------------------------------------------------------------
(* Claims about the dataset handles *)

\* the commands that change the pool
Mutating(cmd) == cmd[2] \notin {S("get"), S("list"), S("holds")}

\* C5 (as claimed): promote() of a dataset without origin returns without a
\* mutating command; promote() of a dataset with an origin issues exactly
\* one promote command, for the dataset's own path, and raises nothing of
\* its own.
C5_PromoteReversesOrigin ==
    result.op = "promote"
        => IF origin_prop = S("-")
           THEN /\ result.raised = ""
                /\ \A i \in 1..Len(issued) : ~Mutating(issued[i])
           ELSE /\ result.raised \in {""} \cup ProcessErrors
                /\ Cardinality({i \in 1..Len(issued) : Mutating(issued[i])}) = 1
                /\ \E i \in 1..Len(issued) :
                      issued[i] = <<S("zfs"), S("promote"), self.name>>

\* the operations C6 says a handle of the type must refuse
C6_NotAllowed(type) ==
    IF type = "snapshot"
    THEN {"filesystems", "volumes", "children", "clones", "snapshot", "snapshots"}
    ELSE {"clone", "send", "hold", "holds", "release"}
            \cup (IF type = "volume" THEN {"filesystems", "volumes"} ELSE {})

\* C6 (as claimed): an operation called on a handle of a kind it is not
\* allowed for raises OperationNotAllowedError and issues no command.
C6_KindRestrictionsEnforced ==
    (result.op \in C6_NotAllowed(self.type))
        => (result.raised = "OperationNotAllowedError" /\ issued = <<>>)

\* the number of '@' in a text
AtSigns(text) == Cardinality({i \in 1..Len(text) : text[i] = "@"})

\* the snapshot path C10 says rollback names
C10_Expected(me, snapname) ==
    IF snapname.is_handle THEN snapname.handle.name
    ELSE IF AtSigns(snapname.text) = 0 THEN me.name \o S("@") \o snapname.text
    ELSE snapname.text

\* C10 (as claimed): rollback issues exactly one command, a zfs rollback
\* whose last argument is the snapshot's path@label with exactly one '@' and
\* no endpoint prefix, whether it was given a bare label, a full name or a
\* handle on a local or a remote endpoint.
C10_RollbackNamesSnapshotPath ==
    result.op = "rollback"
        => /\ Len(issued) = 1
           /\ SubSeq(issued[1], 1, 2) = <<S("zfs"), S("rollback")>>
           /\ Last(issued[1]) = C10_Expected(self, result.args)
           /\ AtSigns(Last(issued[1])) = 1

----------------------------------------------------------------------------
(* Claims about the size estimator *)

\* C4 (as claimed): a stream_size call whose base equals the base of an
\* earlier call on the same instance returns what that earlier call returned
\* and issues no command, whether the earlier call succeeded or failed.
C4_RepeatedBaseServedFromCache ==
    (result.op = "stream_size" /\ result.earlier # None)
        => (result.value = result.earlier[1] /\ issued = <<>>)

\* the lengths k for which the last k atoms of `field` are a number that
\* starts the field or follows a space
TrailingNumbers(field) ==
    {k \in 1..Len(field) :
        /\ \A i \in (Len(field) - k + 1)..Len(field) : IsDigit(field[i])
        /\ (k = Len(field) \/ field[Len(field) - k] = " ")}

\* what C9 says a run of the dry-run command returns
C9_Expected(outcome) ==
    IF outcome.kind # "ok" \/ outcome.out = <<>> THEN 0
    ELSE LET line == outcome.out[Len(outcome.out)]
             field == line[Len(line)]
         IN  IF TrailingNumbers(field) = {} THEN 0
             ELSE LET k == CHOOSE n \in TrailingNumbers(field) : TRUE
                  IN  Decimal(SubSeq(field, Len(field) - k + 1, Len(field)))

\* C9: a stream_size call that runs the dry-run command raises nothing; it
\* returns 0 when the command fails (not found, busy, any other failure),
\* prints nothing, or prints a last line that does not end in an integer,
\* and the integer that ends the last line otherwise.
C9_EstimateNeverRaises ==
    (result.op = "stream_size" /\ issued # <<>>)
        => (result.raised = "" /\ result.value = C9_Expected(result.outcome))

\* C9 witness: the dry run failed as busy and the call returned 0
C9_Witness ==
    /\ result.op = "stream_size"
    /\ issued # <<>>
    /\ result.outcome.kind = "DatasetBusyError"
    /\ result.raised = ""
    /\ result.value = 0

----------------------------------------------------------------------------
(* Claims about the pipelines *)

\* the place a stage kind has in an order of the four kinds
Rank(order, kind) == CHOOSE i \in 1..Len(order) : order[i] = kind

\* the stages follow `order`, each kind at most once
InOrder(stages, order) ==
    LET ks == StageKinds(stages)
    IN  \A i, j \in 1..Len(ks) : i < j => Rank(order, ks[i]) < Rank(order, ks[j])

\* C1 (as claimed): the stages of the source pipeline come in the order
\* generation, metering (pv), buffering (mbuffer), compression.
C1_MeteringBeforeBuffering ==
    snd.op = "send"
        => InOrder(snd.stages, <<"zfs", "pv", "mbuffer", "compression">>)

\* C1 (amended): the stages of the source pipeline come in the order
\* generation, buffering (mbuffer), metering (pv), compression; it starts
\* with the generation stage.
C1_BufferingBeforeMetering ==
    snd.op = "send"
        => /\ InOrder(snd.stages, <<"zfs", "mbuffer", "pv", "compression">>)
           /\ StageKinds(snd.stages)[1] = "zfs"

\* C1 witness: a source pipeline with all four stages
C1_Witness ==
    /\ snd.op = "send"
    /\ StageKinds(snd.stages) = <<"zfs", "mbuffer", "pv", "compression">>

\* C2 (as claimed): the source pipeline has a compression stage exactly when
\* the transfer is remote, raw is false and the two endpoints' compression
\* vectors are both non-empty and equal.
C2_CompressionIffBothVectorsEqual ==
    snd.op = "send"
        => (HasStage(snd.stages, "compression")
              <=> (/\ Remote
                   /\ ~snd.raw
                   /\ self.ssh.compress # <<>>
                   /\ ssh_dest.compress # <<>>
                   /\ self.ssh.compress = ssh_dest.compress))

\* C2 (amended): the source pipeline has a compression stage exactly when raw
\* is false and either both endpoints are remote and their compression
\* vectors are non-empty and equal, or exactly one endpoint is remote and its
\* compression vector is non-empty.
C2_CompressionIffRemoteVectorsAgree ==
    snd.op = "send"
        => (HasStage(snd.stages, "compression")
              <=> (/\ ~snd.raw
                   /\ \/ /\ self.ssh.remote /\ ssh_dest.remote
                         /\ self.ssh.compress # <<>>
                         /\ self.ssh.compress = ssh_dest.compress
                      \/ /\ self.ssh.remote /\ ~ssh_dest.remote
                         /\ self.ssh.compress # <<>>
                      \/ /\ ~self.ssh.remote /\ ssh_dest.remote
                         /\ ssh_dest.compress # <<>>))

\* C2 witness: a local snapshot sent to a remote endpoint is compressed with
\* that endpoint's command
C2_Witness ==
    /\ snd.op = "send"
    /\ ~self.ssh.remote
    /\ ssh_dest.remote
    /\ ~snd.raw
    /\ HasStage(snd.stages, "compression")

\* C3 (as claimed): the destination pipeline has a decompression stage
\* exactly when the source pipeline of the same transfer has a compression
\* stage.
C3_DecompressionIffCompression ==
    (snd.op = "send" /\ rcv.op = "receive")
        => (HasStage(rcv.stages, "compression") <=> HasStage(snd.stages, "compression"))

\* C7: with an estimated size under 1 MiB (0 after a failed estimate
\* included) neither pipeline has a pv or an mbuffer stage.
C7_SmallStreamsUnbuffered ==
    /\ (snd.op = "send" /\ snd.stream_size < MiB)
          => (~HasStage(snd.stages, "pv") /\ ~HasStage(snd.stages, "mbuffer"))
    /\ (rcv.op = "receive" /\ snd.stream_size < MiB)
          => (~HasStage(rcv.stages, "pv") /\ ~HasStage(rcv.stages, "mbuffer"))

\* C7 witness: the estimate failed, both endpoints are remote and have both
\* tools, and both pipelines are built
C7_Witness ==
    /\ snd.op = "send"
    /\ rcv.op = "receive"
    /\ snd.stream_size = 0
    /\ issued # <<>>
    /\ self.ssh.remote /\ self.ssh.mbuffer /\ self.ssh.pv
    /\ ssh_dest.remote /\ ssh_dest.mbuffer /\ ssh_dest.pv

\* the buffer memory C8 states, in MiB
C8_Expected(size) ==
    LET q == size \div MiB
        cap == IF Remote THEN 256 ELSE 512
    IN  IF q < 1 THEN 1 ELSE IF q > cap THEN cap ELSE q

\* C8: an mbuffer stage, of the source or of the destination pipeline, has
\* the memory min(max(floor(size / 2^20), 1), cap) MiB, cap being 256 when an
\* endpoint is remote and 512 when both are local: 10 MiB gives 10 either
\* way, 300 MiB gives 300 locally and 256 remotely.
C8_BufferMemory ==
    /\ (snd.op = "send" /\ HasStage(snd.stages, "mbuffer"))
          => /\ MbufferMem(snd.stages) = C8_Expected(snd.stream_size)
             /\ snd.stream_size = 10 * MiB => MbufferMem(snd.stages) = 10
             /\ snd.stream_size = 300 * MiB
                   => MbufferMem(snd.stages) = IF Remote THEN 256 ELSE 300
    /\ (rcv.op = "receive" /\ HasStage(rcv.stages, "mbuffer"))
          => /\ MbufferMem(rcv.stages) = C8_Expected(snd.stream_size)
             /\ HasStage(snd.stages, "mbuffer")
                   => MbufferMem(rcv.stages) = MbufferMem(snd.stages)

\* C8 witness: a remote transfer of 300 MiB buffered on both sides
C8_Witness ==
    /\ snd.op = "send"
    /\ rcv.op = "receive"
    /\ snd.stream_size = 300 * MiB
    /\ HasStage(snd.stages, "mbuffer")
    /\ HasStage(rcv.stages, "mbuffer")
    /\ MbufferMem(rcv.stages) = 256

\* the incremental mode of a zfs send command, read from its words: "-I",
\* "-i", or "" when it has neither
IncrementalMode(words) ==
    IF \E i \in 1..Len(words) : words[i] = S("-I") THEN "-I"
    ELSE IF \E i \in 1..Len(words) : words[i] = S("-i") THEN "-i"
    ELSE ""

\* C11 (as claimed): the dry-run command that stream_size issues for a send()
\* has the incremental mode of the generation stage that send() builds: none
\* without a base, -I with intermediates, -i without.
C11_DryRunModeMatchesGeneration ==
    (snd.op = "send" /\ Len(issued) = 1)
        => /\ IncrementalMode(issued[1]) = IncrementalMode(snd.stages[1])
           /\ IncrementalMode(snd.stages[1]) =
                  (IF snd.base = None THEN ""
                   ELSE IF snd.intermediates THEN "-I" ELSE "-i")

====
